---- MODULE Spec2Model ----
(***************************************************************************)
(* A model of upgradehelper.py: the per-recipe upgrade loop of             *)
(* Updater.run, the commit finalization, the dependency order of           *)
(* Updater._order_pkgs_to_upgrade, the recipe selection of                 *)
(* UniverseUpdater._pkg_upgradable and the history ledger of               *)
(* UniverseUpdater.  Python strings that the code searches or splits are   *)
(* sequences of one-character strings; values the code only compares or    *)
(* copies (versions, dates, status texts) are single tokens.               *)
(***************************************************************************)
EXTENDS Integers, Sequences, FiniteSets, TLC

VARIABLES
    pc,                  \* position of the program
    pkgs_to_upgrade,     \* Updater.run: list of <<pn, new_ver, maintainer>>
    attempted_pkgs,      \* Updater.run: loop counter
    step,                \* index of the next upgrade step of the current recipe
    pkgs_ctx,            \* Updater.run: pn -> upgrade context
    succeeded_pkgs_ctx,  \* Updater.run: list of pn
    failed_pkgs_ctx,     \* Updater.run: list of pn
    raised,              \* pn -> the exception its step sequence raised, and where
    vcs,                 \* pn -> the answer of git at the commit, and whether commit_changes raised
    calls,               \* the step and commit invocations, in order
    statistics,          \* Statistics.update calls, in order
    recorded,            \* number of contexts handled by the final loop
    history_file,        \* the ledger file: a sequence of lines
    history,             \* UniverseUpdater.history: pn -> fields 1..4
    settings,            \* the [settings] section of the configuration file
    today,               \* date.today()
    checkpkg,            \* the rows of the checkpkg report
    parsed,              \* the list _parse_checkpkg_file returns
    pkgs_list,           \* _get_packages_to_upgrade: the surviving candidates
    decisions,           \* the rows filtered so far with _pkg_upgradable's answer
    updates,             \* number of _update_history calls made on the ledger
    last_update,         \* the last _update_history call, with the ledger before it
    dependency_file,     \* pn-depends.dot: the pairs its lines hold
    ordered,             \* what _order_pkgs_to_upgrade returned or raised
    tmp_file,            \* the file history_file + ".tmp"
    interrupted,         \* the _update_history call during which the process died
    email_summary,       \* the email_summary files pkg_upgrade_handler wrote
    updater,             \* the class of the updater that main constructed
    opts,                \* Updater.opts: the options _set_options stored
    sent,                \* the messages about recipes handed to email_handler
    status_mails,        \* the status messages handed to email_handler
    procs,               \* the processes: state, process group and parent
    sigint               \* the SIGINT sent to the orchestrator

vars == <<pc, pkgs_to_upgrade, attempted_pkgs, step, pkgs_ctx,
          succeeded_pkgs_ctx, failed_pkgs_ctx, raised, vcs, calls, statistics,
          recorded, history_file, history, settings, today, checkpkg, parsed,
          pkgs_list, decisions, updates, last_update, dependency_file,
          ordered, tmp_file, interrupted, email_summary, updater, opts,
          sent, status_mails, procs, sigint>>

runVars == <<pkgs_to_upgrade, attempted_pkgs, step, pkgs_ctx,
             succeeded_pkgs_ctx, failed_pkgs_ctx, raised, vcs, calls,
             statistics, recorded, email_summary>>

selVars == <<checkpkg, parsed, pkgs_list, decisions>>

ordVars == <<dependency_file, ordered>>

crashVars == <<tmp_file, interrupted>>

mailVars == <<updater, opts, sent, status_mails>>

procVars == <<procs, sigint>>

-----------------------------------------------------------------------------
(* Bounds of the model *)

NumSteps == 2

MaxRows == 2

MaxLines == 2

MaxUpdates == 2

-----------------------------------------------------------------------------
(* Strings *)

Range(s) == { s[i] : i \in 1..Len(s) }

\* str.startswith
StartsWith(s, p) ==
    /\ Len(p) <= Len(s)
    /\ \A i \in 1..Len(p) : s[i] = p[i]

\* str.find(p) != -1
Contains(s, p) ==
    \E k \in 0..(Len(s) - Len(p)) : \A i \in 1..Len(p) : s[k + i] = p[i]

Remove(s, x) ==
    LET k == CHOOSE i \in 1..Len(s) : s[i] = x /\ \A j \in 1..(i-1) : s[j] # x
    IN  SubSeq(s, 1, k - 1) \o SubSeq(s, k + 1, Len(s))

gcc == <<"g", "c", "c">>
gccrt == <<"g", "c", "c", "-", "r", "t">>
zlib == <<"z", "l", "i", "b">>
cross == <<"c", "r", "o", "s", "s">>
native == <<"n", "a", "t", "i", "v", "e">>
gcccross == gcc \o <<"-">> \o cross
zlibnative == zlib \o <<"-">> \o native

alice == <<"a", "l", "@", "x">>
bob == <<"b", "o", "@", "y">>

\* Python's None, and a dictionary key that is not set
None == "None"
Absent == "<absent>"

\* str.split(sep): the fields between the separators
RECURSIVE Split(_, _)
Split(s, sep) ==
    IF \A i \in 1..Len(s) : s[i] # sep
    THEN <<s>>
    ELSE LET k == CHOOSE i \in 1..Len(s) :
                      s[i] = sep /\ \A j \in 1..(i-1) : s[j] # sep
         IN  <<SubSeq(s, 1, k - 1)>> \o Split(SubSeq(s, k + 1, Len(s)), sep)

\* str.split(): the words between runs of blanks
RECURSIVE SplitWs(_)
SplitWs(s) ==
    IF s = <<>> THEN <<>>
    ELSE IF s[1] = " " THEN SplitWs(Tail(s))
    ELSE LET ends == { i \in 1..Len(s) : s[i] = " " }
             k == IF ends = {} THEN Len(s) + 1
                  ELSE CHOOSE i \in ends : \A j \in ends : i <= j
         IN  <<SubSeq(s, 1, k - 1)>> \o SplitWs(SubSeq(s, k, Len(s)))

-----------------------------------------------------------------------------
(* Dates *)

\* The dates of the model, as written in the ledger and as datetime parses them
DateTable ==
    { <<"2016-03-15", <<2016, 3, 15>> >>,
      <<"2016-03-08", <<2016, 3, 8>> >>,
      <<"2016-03-07", <<2016, 3, 7>> >>,
      <<"2016-02-14", <<2016, 2, 14>> >>,
      <<"2016-02-13", <<2016, 2, 13>> >> }

\* datetime.strptime(s, '%Y-%m-%d')
StrpTime(s) == (CHOOSE p \in DateTable : <<p[1]>> = s)[2]

\* date.isoformat
IsoFormat(d) == << (CHOOSE p \in DateTable : p[2] = d)[1] >>

IsLeap(y) == y % 4 = 0 /\ (y % 100 # 0 \/ y % 400 = 0)

DaysInMonth(y, m) ==
    IF m = 2 THEN (IF IsLeap(y) THEN 29 ELSE 28)
    ELSE IF m \in {4, 6, 9, 11} THEN 30 ELSE 31

RECURSIVE DaysBeforeMonth(_, _)
DaysBeforeMonth(y, m) ==
    IF m = 1 THEN 0 ELSE DaysBeforeMonth(y, m - 1) + DaysInMonth(y, m - 1)

\* date.toordinal
ToOrdinal(d) ==
    LET y == d[1] - 1
    IN  y * 365 + (y \div 4) - (y \div 100) + (y \div 400)
          + DaysBeforeMonth(d[1], d[2]) + d[3]

-----------------------------------------------------------------------------
(* The history ledger *)

Succeeded == <<"Succeeded">>

\* str() of the error classes: the status text of a failed upgrade
StrOfError(cls) ==
    CASE cls = "FetchError" -> <<"Failed(do_fetch)">>
      [] cls = "Error" -> <<"Failed(other errors)">>
      [] cls = "CompilationError" -> <<"Failed(do_compile)">>
      [] cls = "UpgradeNotNeededError" -> <<"Failed(up to date)">>
      [] cls = "UnsupportedProtocolError" -> <<"Failed(Unsupported protocol)">>
      [] OTHER -> <<"Failed(other errors)">>

\* Mutant: the status text does not depend on the error
GetStatusMsg_AlwaysSucceeded(err) == Succeeded

\* Updater._get_status_msg
GetStatusMsg(err) == IF err # None THEN StrOfError(err) ELSE Succeeded

\* One line of history.uh, without its line terminator
HistoryLine(pn, new_ver, maintainer, day, upgrade_status) ==
    pn \o <<",">> \o new_ver \o <<",">> \o maintainer \o <<",">> \o day
       \o <<",">> \o upgrade_status

\* Mutant: every line of the old ledger is kept
KeepsLine_Always(line, pn) == TRUE

\* The test that keeps a line of the old ledger in the new one
KeepsLine(line, pn) == ~StartsWith(line, pn)

\* UniverseUpdater._update_history: the ledger after the rename
UpdateHistoryFile(file, pn, new_ver, maintainer, upgrade_status, day) ==
    Append(SelectSeq(file, LAMBDA line : KeepsLine(line, pn)),
           HistoryLine(pn, new_ver, maintainer, IsoFormat(day), upgrade_status))

\* Whether the loop of UniverseUpdater.__init__ reads the file without IndexError
ReadsHistory(file) ==
    \A i \in 1..Len(file) : Len(Split(file[i], ",")) >= 5

\* UniverseUpdater.__init__: the dictionary read from the ledger
RECURSIVE ReadHistory(_)
ReadHistory(file) ==
    IF file = <<>> THEN << >>
    ELSE LET before == ReadHistory(SubSeq(file, 1, Len(file) - 1))
             f == Split(file[Len(file)], ",")
             others == DOMAIN before \ {f[1]}
         IN  [k \in others \cup {f[1]} |->
                 IF k = f[1] THEN <<f[2], f[3], f[4], f[5]>> ELSE before[k]]

-----------------------------------------------------------------------------
(* Selection of the recipes to upgrade *)

\* The number of days after which a failed attempt is tried again
RetryDays == 30

\* Mutant: a row is kept whatever its status
RowKept_AnyStatus(row) == row.no_upgrade_reason = <<>>

\* UniverseUpdater._parse_checkpkg_file: the test that keeps a row
RowKept(row) == row.status = "UPDATE" /\ row.no_upgrade_reason = <<>>

\* UniverseUpdater._parse_checkpkg_file
ParseCheckpkgFile(rows) ==
    LET kept == SelectSeq(rows, RowKept)
    IN  [i \in 1..Len(kept) |->
            <<kept[i].pn, kept[i].next_ver, kept[i].maintainer>>]

\* _pkg_upgradable: "if not maintainer"
NoMaintainer(maintainer) == maintainer = <<>>

\* _pkg_upgradable: the blacklist loop
Blacklisted(pn) ==
    /\ "blacklist" \in DOMAIN settings
    /\ \E p \in Range(SplitWs(settings["blacklist"])) : p = pn

\* _pkg_upgradable: the whitelist loop; TRUE when found stays False
NotInWhitelist(maintainer) ==
    /\ "maintainers_whitelist" \in DOMAIN settings
    /\ ~ \E m \in Range(SplitWs(settings["maintainers_whitelist"])) :
            Contains(maintainer, m)

\* Mutant: a record of any version counts as an attempt of this version
AlreadyTried_AnyVersion(pn, next_ver) == pn \in DOMAIN history

\* _pkg_upgradable: "did we already try this version?"
AlreadyTried(pn, next_ver) ==
    /\ pn \in DOMAIN history
    /\ next_ver = history[pn][1]

\* _pkg_upgradable: retry_delta
RetryDelta(pn) == ToOrdinal(today) - ToOrdinal(StrpTime(history[pn][3]))

\* Mutant: every failed attempt is tried again, whatever its status text
RetryStatus_AnyFailure(status) == status # Succeeded

\* _pkg_upgradable: the status texts that allow a retry
RetryStatus(status) ==
    status = StrOfError("FetchError") \/ status = StrOfError("Error")

\* Mutant: the retry starts on the last day of the window
RetryAllowed_OnLastDay(pn) ==
    RetryStatus(history[pn][4]) /\ RetryDelta(pn) >= RetryDays

\* Mutant: the window is read from the configuration, a week by default
RetryAllowed_Configured(pn) ==
    /\ RetryStatus(history[pn][4])
    /\ RetryDelta(pn) >
           (IF "cooldown" \in DOMAIN settings
            THEN IF settings["cooldown"] = <<"1", "4">> THEN 14 ELSE RetryDays
            ELSE 7)

\* _pkg_upgradable: the test that returns True from the history branch
RetryAllowed(pn) ==
    RetryStatus(history[pn][4]) /\ RetryDelta(pn) > RetryDays

\* _pkg_upgradable: the cross/native test
CrossOrNative(pn) == Contains(pn, cross) \/ Contains(pn, native)

\* _pkg_upgradable, with the reason it logs
PkgUpgradable(pn, next_ver, maintainer) ==
    IF NoMaintainer(maintainer)
    THEN [ok |-> FALSE, reason |-> "no maintainer"]
    ELSE IF Blacklisted(pn)
    THEN [ok |-> FALSE, reason |-> "blacklist"]
    ELSE IF NotInWhitelist(maintainer)
    THEN [ok |-> FALSE, reason |-> "not in whitelist"]
    ELSE IF AlreadyTried(pn, next_ver)
    THEN IF RetryAllowed(pn)
         THEN [ok |-> TRUE, reason |-> "retry"]
         ELSE [ok |-> FALSE, reason |-> "in history"]
    ELSE IF CrossOrNative(pn)
    THEN [ok |-> FALSE, reason |-> "cross or native"]
    ELSE [ok |-> TRUE, reason |-> "upgradable"]

-----------------------------------------------------------------------------
(* Updater._order_pkgs_to_upgrade: the dependency order of the recipes *)

glibc == <<"g", "l", "i", "b", "c">>

\* The name of the node _order_pkgs_to_upgrade adds to the graph
root == <<"__root_node__">>

\* A dictionary is the sequence of its items in the order of their insertion;
\* view tells that the value is the dictionary's own keys() view
Item(key, val) == [key |-> key, val |-> val, view |-> FALSE]

Keys(dic) == [i \in 1..Len(dic) |-> dic[i].key]

HasKey(dic, key) == \E i \in 1..Len(dic) : dic[i].key = key

\* dic[key]: a keys() view shows the keys the dictionary has when it is read
GetItem(dic, key) ==
    LET item == dic[CHOOSE i \in 1..Len(dic) : dic[i].key = key]
    IN  IF item.view THEN Keys(dic) ELSE item.val

\* A line of the dependency file is the pair of names the pattern
\* "(.*)" -> "(.*)" captures, or <<>> when the line does not match
Matches(line) == Len(line) = 2

\* _get_pn_dep_dic
RECURSIVE GetPnDepDic(_, _)
GetPnDepDic(pn_list, lines) ==
    IF lines = <<>> THEN <<>>
    ELSE LET dic == GetPnDepDic(pn_list, SubSeq(lines, 1, Len(lines) - 1))
             line == lines[Len(lines)]
             pn == line[1]
             pn_dep == line[2]
         IN  IF ~Matches(line) THEN dic
             ELSE IF pn = pn_dep THEN dic
             ELSE IF pn \notin Range(pn_list) THEN dic
             ELSE IF pn_dep \in Range(pn_list)
             THEN IF HasKey(dic, pn)
                  THEN [i \in 1..Len(dic) |->
                           IF dic[i].key = pn
                           THEN [dic[i] EXCEPT !.val = Append(@, pn_dep)]
                           ELSE dic[i]]
                  ELSE Append(dic, Item(pn, <<pn_dep>>))
             ELSE IF ~HasKey(dic, pn) THEN Append(dic, Item(pn, <<>>))
             ELSE dic

\* The lists of _dep_resolve before the first call, and no exception raised
NoneResolved == [resolved |-> <<>>, seen |-> <<>>, exc |-> None, args |-> <<>>]

\* _dep_resolve(graph, node, resolved, seen): the two lists after the call,
\* or the exception that left it; DepResolveEdges is its loop over graph[node]
RECURSIVE DepResolve(_, _, _)
RECURSIVE DepResolveEdges(_, _, _, _)
DepResolve(graph, node, st) ==
    LET entered == [st EXCEPT !.seen = Append(@, node)]
    IN  IF ~HasKey(graph, node)
        THEN [entered EXCEPT !.exc = "KeyError", !.args = <<node>>]
        ELSE LET after == DepResolveEdges(graph, node, GetItem(graph, node),
                                          entered)
             IN  IF after.exc # None THEN after
                 ELSE [after EXCEPT !.resolved = Append(@, node)]

DepResolveEdges(graph, node, edges, st) ==
    IF edges = <<>> \/ st.exc # None THEN st
    ELSE LET edge == Head(edges)
             next == IF edge \in Range(st.resolved) THEN st
                     ELSE IF edge \in Range(st.seen)
                     THEN [st EXCEPT !.exc = "RuntimeError",
                                     !.args = <<node, edge>>]
                     ELSE DepResolve(graph, edge, st)
         IN  DepResolveEdges(graph, node, Tail(edges), next)

\* What bb.dependency_graph may answer
GraphAnswers == {"written", "multiple providers", "error"}

\* The loop that builds pkgs_to_upgrade_ordered from pn_list_ordered
RECURSIVE OrderedPkgs(_, _)
OrderedPkgs(pn_list_ordered, pkgs) ==
    IF pn_list_ordered = <<>> THEN <<>>
    ELSE SelectSeq(pkgs, LAMBDA pkg : pkg[1] = Head(pn_list_ordered))
            \o OrderedPkgs(Tail(pn_list_ordered), pkgs)

\* _order_pkgs_to_upgrade has not been called
NotOrdered == [called |-> FALSE, exc |-> None, args |-> <<>>, pkgs |-> <<>>]

\* _order_pkgs_to_upgrade: the list it returns or the exception it raises
OrderPkgsToUpgrade(pkgs, lines, answer) ==
    LET pn_list == [i \in 1..Len(pkgs) |-> pkgs[i][1]]
        pn_dep_dic == GetPnDepDic(pn_list, lines)
        graph == Append(pn_dep_dic, [key |-> root, val |-> <<>>, view |-> TRUE])
        st == IF pn_dep_dic # <<>> THEN DepResolve(graph, root, NoneResolved)
              ELSE NoneResolved
    IN  IF answer = "error"
        THEN [called |-> TRUE, exc |-> "Error", args |-> <<>>, pkgs |-> <<>>]
        ELSE IF st.exc # None
        THEN [called |-> TRUE, exc |-> st.exc, args |-> st.args, pkgs |-> <<>>]
        ELSE [called |-> TRUE, exc |-> None, args |-> <<>>,
              pkgs |-> OrderedPkgs(
                  IF pn_dep_dic # <<>> THEN Remove(st.resolved, root)
                  ELSE st.resolved, pkgs)]

-----------------------------------------------------------------------------
(* Updater.run: the upgrade loop *)

\* The step after whose return the context holds the key 'recipe'
RecipeStep == 1

\* What a call of an upgrade step may raise
StepExceptions ==
    {"UpgradeNotNeededError", "UnsupportedProtocolError", "FetchError",
     "Exception"}

\* isinstance(e, Error)
IsError(e) == e \in {"FetchError", "CompilationError", "Error"}

\* What git.commit and git.create_patch may answer
VcsAnswers == {"patch", "empty patch", "nothing to commit", "rejected"}

\* The names of a list of <<pn, new_ver, maintainer>>
Names(pkgs) == { pkgs[i][1] : i \in 1..Len(pkgs) }

\* The context run creates for a package
NewCtx(pkg) ==
    [PN |-> pkg[1], NPV |-> pkg[2], MAINTAINER |-> pkg[3], error |-> Absent,
     message |-> Absent, patch_file |-> Absent, recipe |-> FALSE]

\* Mutant: an exception that is no Error is dropped instead of wrapped
StepError_DropsUnknown(e) ==
    IF e \in {"UpgradeNotNeededError", "UnsupportedProtocolError"} THEN e
    ELSE IF ~IsError(e) THEN None
    ELSE e

\* Mutant: the two benign exceptions are not stored as the error
StepError_BenignUnset(e) ==
    IF e \in {"UpgradeNotNeededError", "UnsupportedProtocolError"} THEN None
    ELSE IF ~IsError(e) THEN "Error"
    ELSE e

\* run: the error the except clause of the step loop stores
StepError(e) ==
    IF e \in {"UpgradeNotNeededError", "UnsupportedProtocolError"} THEN e
    ELSE IF ~IsError(e) THEN "Error"
    ELSE e

\* run: the message of the stored error
StepMessage(e) ==
    IF e \in {"UpgradeNotNeededError", "UnsupportedProtocolError"} THEN e
    ELSE IF ~IsError(e) THEN "Failed(unknown error)"
    ELSE e

\* Mutant: the except clause of the step loop raises again and run ends
AfterStepException_Raises == "done"

\* Mutant: after the except clause the loop goes on to the next recipe
AfterStepException_SkipsCommit == "loop"

\* run: the position after the except clause of the step loop
AfterStepException == "commit"

\* Mutant: a commit that git accepted is a success whatever create_patch printed
CommitChanges_TrustsCommit(ctx, answer) ==
    IF ~ctx.recipe
    THEN [ctx |-> [ctx EXCEPT !.patch_file = None], fail |-> FALSE]
    ELSE CASE answer = "patch" ->
                [ctx |-> [ctx EXCEPT !.patch_file = "0001.patch"],
                 fail |-> FALSE]
           [] answer = "empty patch" ->
                [ctx |-> [ctx EXCEPT !.patch_file = ""], fail |-> FALSE]
           [] answer = "nothing to commit" ->
                [ctx |-> [ctx EXCEPT !.patch_file = None,
                                     !.error = "Error",
                                     !.message = "Nothing to commit!"],
                 fail |-> TRUE]
           [] OTHER ->
                [ctx |-> [ctx EXCEPT !.patch_file = None,
                                     !.error = "Error",
                                     !.message = ""],
                 fail |-> TRUE]

\* pkg_upgrade_handler: the subject of the message about a recipe
Subject(ctx) ==
    <<"[AUH] ">> \o ctx.PN \o <<": upgrading to ">> \o ctx.NPV
        \o (IF ctx.error = None THEN <<" SUCCEEDED">> ELSE <<" FAILED">>)

\* pkg_upgrade_handler: cc_addr, None unless status_recipients is set
CcAddr(conf) ==
    IF "status_recipients" \in DOMAIN conf
    THEN [set |-> TRUE, list |-> SplitWs(conf["status_recipients"])]
    ELSE [set |-> FALSE, list |-> <<>>]

\* Mutant: the message is handed over whatever the outcome of the upgrade
SendsToMaintainer_AnyOutcome(o, ctx) == o.send_email

\* pkg_upgrade_handler: the test before email_handler.send_email
SendsToMaintainer(o, ctx) == o.send_email /\ ctx.error = None

\* What the delivery of a message by the notification collaborator may do
Deliveries == {"delivered", "failed"}

\* Email.send_email: whether the call raises; a failed delivery does not
SendEmailRaises(delivery) == FALSE

\* Mutant: the local copy is written only for a message that was handed over
PkgUpgradeHandler_CopyWhenSent(ctx, o, conf, delivery) ==
    LET hands == SendsToMaintainer(o, ctx)
    IN  [sent |-> IF hands
                  THEN << [pn |-> ctx.PN, to |-> ctx.MAINTAINER,
                           cc |-> CcAddr(conf), subject |-> Subject(ctx),
                           delivery |-> delivery] >>
                  ELSE <<>>,
         raises |-> hands /\ SendEmailRaises(delivery),
         email_summary |->
             IF hands /\ ~SendEmailRaises(delivery)
             THEN << [pn |-> ctx.PN, to |-> ctx.MAINTAINER,
                      subject |-> Subject(ctx)] >>
             ELSE <<>>]

\* Updater.pkg_upgrade_handler for a maintainer without an override: the
\* message it hands to email_handler, whether the call raises, and the
\* email_summary file it writes after the call
PkgUpgradeHandler(ctx, o, conf, delivery) ==
    LET hands == SendsToMaintainer(o, ctx)
    IN  [sent |-> IF hands
                  THEN << [pn |-> ctx.PN, to |-> ctx.MAINTAINER,
                           cc |-> CcAddr(conf), subject |-> Subject(ctx),
                           delivery |-> delivery] >>
                  ELSE <<>>,
         raises |-> hands /\ SendEmailRaises(delivery),
         email_summary |->
             IF hands /\ SendEmailRaises(delivery)
             THEN <<>>
             ELSE << [pn |-> ctx.PN, to |-> ctx.MAINTAINER,
                      subject |-> Subject(ctx)] >>]

\* Mutant: the status mail is wanted whenever a recipe was attempted
SummaryWanted_Always(attempted, o) == attempted > 0

\* run: the tests before send_status_mail
SummaryWanted(attempted, o) == attempted > 0 /\ o.send_email

\* Statistics.total_attempted: the number of updates of the statistics
TotalAttempted(stats) == Len(stats)

\* send_status_mail outside layer mode: the messages it hands to email_handler
SendStatusMail(conf, stats, day) ==
    IF "status_recipients" \notin DOMAIN conf THEN <<>>
    ELSE IF TotalAttempted(stats) # 0
         THEN << [to |-> SplitWs(conf["status_recipients"]),
                  subject |-> <<"[AUH] Upgrade status: ">> \o IsoFormat(day)] >>
    ELSE <<>>

\* commit_changes: the context it leaves and whether it raises
CommitChanges(ctx, answer) ==
    IF ~ctx.recipe
    THEN [ctx |-> [ctx EXCEPT !.patch_file = None], fail |-> FALSE]
    ELSE CASE answer = "patch" ->
                [ctx |-> [ctx EXCEPT !.patch_file = "0001.patch"],
                 fail |-> FALSE]
           [] answer = "empty patch" ->
                [ctx |-> [ctx EXCEPT !.patch_file = "",
                                     !.error = "Error",
                                     !.message = "Patch file not generated."],
                 fail |-> TRUE]
           [] answer = "nothing to commit" ->
                [ctx |-> [ctx EXCEPT !.patch_file = None,
                                     !.error = "Error",
                                     !.message = "Nothing to commit!"],
                 fail |-> TRUE]
           [] OTHER ->
                [ctx |-> [ctx EXCEPT !.patch_file = None,
                                     !.error = "Error",
                                     !.message = ""],
                 fail |-> TRUE]

\* The package the loop is at
CurPn == pkgs_to_upgrade[attempted_pkgs][1]

\* The packages a run may be given
PkgUniverse == { <<gcc, <<"2.0">>, alice>>, <<gccrt, <<"2.0">>, bob>> }

\* The lists of at most n elements of S, without repetition
RECURSIVE DistinctSeqs(_, _)
DistinctSeqs(S, n) ==
    IF n = 0 THEN { <<>> }
    ELSE LET shorter == DistinctSeqs(S, n - 1)
             longest == { r \in shorter : Len(r) = n - 1 }
         IN  shorter \cup
             { Append(p[1], p[2]) :
                 p \in { c \in longest \X S : c[2] \notin Range(c[1]) } }

\* No _update_history call yet
NoUpdate ==
    [called |-> FALSE, before |-> <<>>, pn |-> <<>>, new_ver |-> <<>>,
     maintainer |-> <<>>, upgrade_status |-> <<>>]

\* The state of the selection and of the ledger calls while a run is modelled
SelectionIdle ==
    /\ checkpkg = <<>>
    /\ parsed = <<>>
    /\ pkgs_list = <<>>
    /\ decisions = <<>>

\* The state of the upgrade loop while it does not run
RunIdle ==
    /\ pkgs_to_upgrade = <<>>
    /\ attempted_pkgs = 0
    /\ step = 0
    /\ pkgs_ctx = <<>>
    /\ succeeded_pkgs_ctx = <<>>
    /\ failed_pkgs_ctx = <<>>
    /\ raised = <<>>
    /\ vcs = <<>>
    /\ calls = <<>>
    /\ statistics = <<>>
    /\ recorded = 0
    /\ email_summary = <<>>

\* The state of the ordering while it is not modelled
OrderIdle ==
    /\ dependency_file = <<>>
    /\ ordered = NotOrdered

\* A file that does not exist
NoFile == [exists |-> FALSE, lines |-> <<>>]

\* No _update_history call has been interrupted
CrashIdle ==
    /\ tmp_file = NoFile
    /\ interrupted = NoUpdate

\* No process is modelled and no SIGINT has been sent
ProcIdle ==
    /\ procs = <<>>
    /\ sigint = "none"

\* The options of UniverseUpdater.__init__: Updater.__init__(self, True, True)
UniverseOpts == [send_email |-> TRUE]

\* No message has been handed to email_handler by a UniverseUpdater
MailIdle ==
    /\ updater = "UniverseUpdater"
    /\ opts = UniverseOpts
    /\ sent = <<>>
    /\ status_mails = <<>>

\* The dependencies between the packages of a run that pn-depends.dot may hold
RunDependencies ==
    { <<>>, << <<gccrt, gcc>> >>, << <<gccrt, gcc>>, <<gcc, gccrt>> >> }

\* The [settings] section of a run: without and with status_recipients
RunSettings ==
    { <<>>, [k \in {"status_recipients"} |-> <<"l", "@", "z">>] }

\* The state when run reaches its loop over pkgs_to_upgrade: main constructs
\* an Updater for one recipe with the options of the command line, and a
\* UniverseUpdater otherwise
InitRun ==
    /\ pc = "loop"
    /\ pkgs_to_upgrade \in DistinctSeqs(PkgUniverse, Cardinality(PkgUniverse))
    /\ attempted_pkgs = 0
    /\ step = 0
    /\ pkgs_ctx = [pn \in Names(pkgs_to_upgrade) |->
                     NewCtx(CHOOSE pkg \in Range(pkgs_to_upgrade) : pkg[1] = pn)]
    /\ succeeded_pkgs_ctx = <<>>
    /\ failed_pkgs_ctx = <<>>
    /\ raised = [pn \in Names(pkgs_to_upgrade) |-> [at |-> 0, exc |-> None]]
    /\ vcs = [pn \in Names(pkgs_to_upgrade) |->
                [answer |-> Absent, raised |-> FALSE]]
    /\ calls = <<>>
    /\ statistics = <<>>
    /\ recorded = 0
    /\ email_summary = <<>>
    /\ updater \in {"Updater", "UniverseUpdater"}
    /\ updater = "Updater" => Len(pkgs_to_upgrade) = 1
    /\ opts \in [send_email : BOOLEAN]
    /\ updater = "UniverseUpdater" => opts = UniverseOpts
    /\ sent = <<>>
    /\ status_mails = <<>>
    /\ ProcIdle
    /\ history_file = <<>>
    /\ history = <<>>
    /\ settings \in RunSettings
    /\ today = <<2016, 3, 15>>
    /\ updates = 0
    /\ last_update = NoUpdate
    /\ SelectionIdle
    /\ dependency_file \in RunDependencies
    /\ ordered = NotOrdered
    /\ CrashIdle

\* run: the head of the loop over pkgs_to_upgrade
StartPkg ==
    /\ pc = "loop"
    /\ attempted_pkgs < Len(pkgs_to_upgrade)
    /\ attempted_pkgs' = attempted_pkgs + 1
    /\ pkgs_ctx' = [pkgs_ctx EXCEPT
                      ![pkgs_to_upgrade[attempted_pkgs + 1][1]].error = None]
    /\ step' = 1
    /\ pc' = "steps"
    /\ UNCHANGED <<pkgs_to_upgrade, succeeded_pkgs_ctx, failed_pkgs_ctx, raised,
                   vcs, calls, statistics, recorded, history_file, history,
                   settings, today, updates, last_update, selVars, email_summary,
                   ordVars, crashVars, mailVars, procVars>>

\* run: an upgrade step is called and returns
StepReturns ==
    /\ pc = "steps"
    /\ step <= NumSteps
    /\ calls' = Append(calls, <<CurPn, step>>)
    /\ pkgs_ctx' = [pkgs_ctx EXCEPT
                      ![CurPn].recipe = @ \/ step = RecipeStep]
    /\ step' = step + 1
    /\ UNCHANGED <<pc, pkgs_to_upgrade, attempted_pkgs, succeeded_pkgs_ctx,
                   failed_pkgs_ctx, raised, vcs, statistics, recorded,
                   history_file, history, settings, today, updates,
                   last_update, selVars, email_summary,
                   ordVars, crashVars, mailVars, procVars>>

\* run: the last upgrade step has returned
StepsCompleted ==
    /\ pc = "steps"
    /\ step = NumSteps + 1
    /\ succeeded_pkgs_ctx' = Append(succeeded_pkgs_ctx, CurPn)
    /\ pc' = "commit"
    /\ UNCHANGED <<pkgs_to_upgrade, attempted_pkgs, step, pkgs_ctx,
                   failed_pkgs_ctx, raised, vcs, calls, statistics, recorded,
                   history_file, history, settings, today, updates,
                   last_update, selVars, email_summary,
                   ordVars, crashVars, mailVars, procVars>>

\* run: an upgrade step is called and raises e
StepRaises(e) ==
    /\ pc = "steps"
    /\ step <= NumSteps
    /\ calls' = Append(calls, <<CurPn, step>>)
    /\ raised' = [raised EXCEPT ![CurPn] = [at |-> step, exc |-> e]]
    /\ pkgs_ctx' = [pkgs_ctx EXCEPT ![CurPn].error = StepError(e),
                                    ![CurPn].message = StepMessage(e)]
    /\ failed_pkgs_ctx' = Append(failed_pkgs_ctx, CurPn)
    /\ pc' = AfterStepException
    /\ UNCHANGED <<pkgs_to_upgrade, attempted_pkgs, step, succeeded_pkgs_ctx,
                   vcs, statistics, recorded, history_file, history, settings,
                   today, updates, last_update, selVars, email_summary,
                   ordVars, crashVars, mailVars, procVars>>

\* run: commit_changes and the except clause around it
Commit(answer) ==
    /\ pc = "commit"
    /\ pkgs_ctx[CurPn].recipe \/ answer = "rejected"
    /\ LET res == CommitChanges(pkgs_ctx[CurPn], answer)
           moved == res.fail /\ CurPn \in Range(succeeded_pkgs_ctx)
       IN  /\ pkgs_ctx' = [pkgs_ctx EXCEPT ![CurPn] = res.ctx]
           /\ succeeded_pkgs_ctx' =
                  IF moved THEN Remove(succeeded_pkgs_ctx, CurPn)
                  ELSE succeeded_pkgs_ctx
           /\ failed_pkgs_ctx' =
                  IF moved THEN Append(failed_pkgs_ctx, CurPn)
                  ELSE failed_pkgs_ctx
    /\ vcs' = [vcs EXCEPT ![CurPn] =
                  [answer |-> IF pkgs_ctx[CurPn].recipe THEN answer
                              ELSE "not called",
                   raised |-> CommitChanges(pkgs_ctx[CurPn], answer).fail]]
    /\ calls' = Append(calls, <<CurPn, 0>>)
    /\ pc' = "loop"
    /\ UNCHANGED <<pkgs_to_upgrade, attempted_pkgs, step, raised, statistics,
                   recorded, history_file, history, settings, today, updates,
                   last_update, selVars, email_summary,
                   ordVars, crashVars, mailVars, procVars>>

\* run: the loop over pkgs_to_upgrade ends
LoopDone ==
    /\ pc = "loop"
    /\ attempted_pkgs = Len(pkgs_to_upgrade)
    /\ pc' = "record"
    /\ UNCHANGED <<runVars, history_file, history, settings, today, updates,
                   last_update, selVars,
                   ordVars, crashVars, mailVars, procVars>>

\* The keys of pkgs_ctx in the order run inserted them
CtxKeys == [i \in 1..Len(pkgs_to_upgrade) |-> pkgs_to_upgrade[i][1]]

\* run: the loop over pkgs_ctx.keys(): the update of the statistics and the
\* pkg_upgrade_handler of the updater; UniverseUpdater's calls _update_history
\* after Updater's has returned
RecordPkg(delivery) ==
    /\ pc = "record"
    /\ recorded < Len(CtxKeys)
    /\ LET ctx == pkgs_ctx[CtxKeys[recorded + 1]]
           h == PkgUpgradeHandler(ctx, opts, settings, delivery)
           ledger == updater = "UniverseUpdater" /\ ~h.raises
       IN  /\ statistics' = Append(statistics,
                  [pn |-> ctx.PN, new_ver |-> ctx.NPV,
                   maintainer |-> ctx.MAINTAINER, error |-> ctx.error])
           /\ sent' = sent \o h.sent
           /\ email_summary' = email_summary \o h.email_summary
           /\ history_file' =
                  IF ledger
                  THEN UpdateHistoryFile(history_file, ctx.PN, ctx.NPV,
                           ctx.MAINTAINER, GetStatusMsg(ctx.error), today)
                  ELSE history_file
           /\ last_update' =
                  IF ledger
                  THEN [called |-> TRUE, before |-> history_file,
                        pn |-> ctx.PN, new_ver |-> ctx.NPV,
                        maintainer |-> ctx.MAINTAINER,
                        upgrade_status |-> GetStatusMsg(ctx.error)]
                  ELSE last_update
           /\ updates' = IF ledger THEN updates + 1 ELSE updates
           /\ pc' = IF h.raises THEN "aborted" ELSE pc
    /\ recorded' = recorded + 1
    /\ UNCHANGED <<pkgs_to_upgrade, attempted_pkgs, step, pkgs_ctx,
                   succeeded_pkgs_ctx, failed_pkgs_ctx, raised, vcs, calls,
                   history, settings, today, selVars, updater, opts,
                   status_mails, ordVars, crashVars, procVars>>

\* run: the statistics summary after the last context, and send_status_mail
Summary ==
    /\ pc = "record"
    /\ recorded = Len(CtxKeys)
    /\ status_mails' =
           IF SummaryWanted(attempted_pkgs, opts)
           THEN status_mails \o SendStatusMail(settings, statistics, today)
           ELSE status_mails
    /\ pc' = "done"
    /\ UNCHANGED <<runVars, history_file, history, settings, today, updates,
                   last_update, selVars, updater, opts, sent,
                   ordVars, crashVars, procVars>>

NextRun ==
    \/ StartPkg
    \/ StepReturns
    \/ StepsCompleted
    \/ \E e \in StepExceptions : StepRaises(e)
    \/ \E answer \in VcsAnswers : Commit(answer)
    \/ LoopDone
    \/ \E delivery \in Deliveries : RecordPkg(delivery)
    \/ Summary

Spec == InitRun /\ [][NextRun]_vars

\* Every step, commit and mail call returns: the loop is sequential code
FairSpec == InitRun /\ [][NextRun]_vars /\ WF_vars(NextRun)

-----------------------------------------------------------------------------
(* The ledger across runs: _update_history calls and the next run's read *)

\* The recipe name a ledger line starts with
LineName(line) == Split(line, ",")[1]

\* The recipe names, versions and status texts of the modelled ledgers
HistNames == {gcc, gccrt, zlib}

HistLines ==
    { HistoryLine(pn, v, alice, <<"2016-03-08">>, st) :
        pn \in HistNames, v \in { <<"1.9">> },
        st \in { Succeeded, StrOfError("FetchError") } }

\* The ledgers of at most n lines with one line per recipe name
Ledgers(n) ==
    { f \in DistinctSeqs(HistLines, n) :
        \A i, j \in 1..Len(f) : LineName(f[i]) = LineName(f[j]) => i = j }

\* The state after UniverseUpdater.__init__ has read a ledger
InitHistory ==
    /\ pc = "ledger"
    /\ history_file \in Ledgers(MaxLines)
    /\ history = ReadHistory(history_file)
    /\ settings = <<>>
    /\ today = <<2016, 3, 15>>
    /\ updates = 0
    /\ last_update = NoUpdate
    /\ RunIdle
    /\ SelectionIdle
    /\ OrderIdle
    /\ CrashIdle
    /\ MailIdle
    /\ ProcIdle

\* UniverseUpdater._update_history
UpdateHistory(pn, new_ver, maintainer, upgrade_status) ==
    /\ pc = "ledger"
    /\ updates < MaxUpdates
    /\ history_file' = UpdateHistoryFile(history_file, pn, new_ver, maintainer,
                                         upgrade_status, today)
    /\ last_update' = [called |-> TRUE, before |-> history_file, pn |-> pn,
                       new_ver |-> new_ver, maintainer |-> maintainer,
                       upgrade_status |-> upgrade_status]
    /\ updates' = updates + 1
    /\ UNCHANGED <<pc, runVars, history, settings, today, selVars,
                   ordVars, crashVars, mailVars, procVars>>

\* UniverseUpdater._update_history when the process dies in it: after k lines
\* have reached the temporary file, or after the rename when k is one more
\* than the lines to write
CrashInUpdate(pn, new_ver, maintainer, upgrade_status, k) ==
    /\ pc = "ledger"
    /\ updates < MaxUpdates
    /\ LET new == UpdateHistoryFile(history_file, pn, new_ver, maintainer,
                                    upgrade_status, today)
       IN  /\ k <= Len(new) + 1
           /\ IF k <= Len(new)
              THEN /\ tmp_file' = [exists |-> TRUE, lines |-> SubSeq(new, 1, k)]
                   /\ history_file' = history_file
              ELSE /\ tmp_file' = NoFile
                   /\ history_file' = new
    /\ interrupted' = [called |-> TRUE, before |-> history_file, pn |-> pn,
                       new_ver |-> new_ver, maintainer |-> maintainer,
                       upgrade_status |-> upgrade_status]
    /\ updates' = updates + 1
    /\ pc' = "crashed"
    /\ UNCHANGED <<runVars, history, settings, today, selVars, last_update,
                   ordVars, mailVars, procVars>>

\* UniverseUpdater.__init__ of the next run: the ledger is read again
LoadHistory ==
    /\ pc = "ledger"
    /\ history # ReadHistory(history_file)
    /\ history' = ReadHistory(history_file)
    /\ UNCHANGED <<pc, runVars, history_file, settings, today, selVars,
                   updates, last_update,
                   ordVars, crashVars, mailVars, procVars>>

NextHistory ==
    \/ \E pn \in HistNames, new_ver \in { <<"2.0">> },
          maintainer \in {bob},
          upgrade_status \in { Succeeded, StrOfError("Error") } :
              UpdateHistory(pn, new_ver, maintainer, upgrade_status)
    \/ \E pn \in HistNames, new_ver \in { <<"2.0">> },
          maintainer \in {bob},
          upgrade_status \in { Succeeded, StrOfError("Error") },
          k \in 0..(Len(history_file) + 2) :
              CrashInUpdate(pn, new_ver, maintainer, upgrade_status, k)
    \/ LoadHistory

SpecHistory == InitHistory /\ [][NextHistory]_vars

\* The number of lines of a ledger that are records of pn
RecordsOf(file, pn) ==
    Cardinality({ i \in 1..Len(file) : LineName(file[i]) = pn })

\* C5: after update(A, ...) a load returns one record for A with the new
\* values, and every record of another recipe name that the ledger held
\* before the update, also of a name that begins with A's name, unchanged.
C5_UpdateKeepsOtherRecords ==
    last_update.called =>
        LET u == last_update
            old == ReadHistory(u.before)
            new == ReadHistory(history_file)
        IN  /\ RecordsOf(history_file, u.pn) = 1
            /\ u.pn \in DOMAIN new
            /\ new[u.pn] = <<u.new_ver, u.maintainer, IsoFormat(today),
                             u.upgrade_status>>
            /\ \A pn \in DOMAIN old \ {u.pn} :
                   pn \in DOMAIN new /\ new[pn] = old[pn]

-----------------------------------------------------------------------------
(* UniverseUpdater._get_packages_to_upgrade: the report is parsed and filtered *)

\* A key the configuration file does not set
Unset == <<Absent>>

\* The [settings] section with the keys that are set
MkSettings(blacklist, whitelist, cooldown) ==
    LET all == [blacklist |-> blacklist, maintainers_whitelist |-> whitelist,
                cooldown |-> cooldown]
    IN  [k \in { x \in DOMAIN all : all[x] # Unset } |-> all[k]]

SettingsUniverse ==
    { MkSettings(b, w, c) :
        b \in { Unset, zlib },
        w \in { Unset, <<>>, <<"a", "l">>, <<"z", "z", " ", "a", "l">> },
        c \in { Unset, <<"1", "4">> } }

\* A row of the checkpkg report
Row(pn, status, maintainer, no_upgrade_reason) ==
    [pn |-> pn, next_ver |-> <<"2.0">>, status |-> status,
     maintainer |-> maintainer, no_upgrade_reason |-> no_upgrade_reason]

RowUniverse ==
    { Row(gcc, "UPDATE", alice, <<>>),
      Row(gcccross, "UPDATE", alice, <<>>),
      Row(zlibnative, "UPDATE", bob, <<>>),
      Row(zlib, "UPDATE", bob, <<>>),
      Row(zlib, "MATCH", bob, <<>>),
      Row(zlib, "UPDATE", bob, <<"n", "o">>),
      Row(zlib, "UPDATE", <<>>, <<>>) }

\* The reports of at most n rows with one row per recipe name
Reports(n) ==
    { r \in DistinctSeqs(RowUniverse, n) :
        \A i, j \in 1..Len(r) : r[i].pn = r[j].pn => i = j }

\* The ledgers a selection starts from: empty, or one record of an earlier
\* attempt, 7, 8, 30 or 31 days before today
SelLedgers ==
    { <<>> } \cup
    { << HistoryLine(pn, <<"2.0">>, alice, d, st) >> :
        pn \in {gcc, gcccross},
        d \in { <<"2016-03-08">>, <<"2016-03-07">>, <<"2016-02-14">>,
                <<"2016-02-13">> },
        st \in { Succeeded, StrOfError("FetchError"), StrOfError("Error"),
                 StrOfError("CompilationError") } } \cup
    { << HistoryLine(pn, <<"1.9">>, alice, d, st) >> :
        pn \in {gcc, gcccross},
        d \in { <<"2016-03-08">>, <<"2016-02-13">> },
        st \in { Succeeded, StrOfError("FetchError") } }

\* The state when _get_packages_to_upgrade has the report to parse
InitSelect ==
    /\ pc = "parse"
    /\ settings \in SettingsUniverse
    /\ history_file \in SelLedgers
    /\ history = ReadHistory(history_file)
    /\ today = <<2016, 3, 15>>
    /\ checkpkg \in Reports(MaxRows)
    /\ parsed = <<>>
    /\ pkgs_list = <<>>
    /\ decisions = <<>>
    /\ updates = 0
    /\ last_update = NoUpdate
    /\ RunIdle
    /\ OrderIdle
    /\ CrashIdle
    /\ MailIdle
    /\ ProcIdle

\* _get_packages_to_upgrade: the call of _parse_checkpkg_file
ParseReport ==
    /\ pc = "parse"
    /\ parsed' = ParseCheckpkgFile(checkpkg)
    /\ pc' = "filter"
    /\ UNCHANGED <<runVars, history_file, history, settings, today, checkpkg,
                   pkgs_list, decisions, updates, last_update,
                   ordVars, crashVars, mailVars, procVars>>

\* _get_packages_to_upgrade: one turn of the loop over the parsed packages
FilterPkg ==
    /\ pc = "filter"
    /\ Len(decisions) < Len(parsed)
    /\ LET pkg == parsed[Len(decisions) + 1]
           res == PkgUpgradable(pkg[1], pkg[2], pkg[3])
       IN  /\ decisions' = Append(decisions,
                  [pn |-> pkg[1], next_ver |-> pkg[2], maintainer |-> pkg[3],
                   ok |-> res.ok, reason |-> res.reason])
           /\ pkgs_list' = IF res.ok THEN Append(pkgs_list, pkg) ELSE pkgs_list
    /\ UNCHANGED <<pc, runVars, history_file, history, settings, today,
                   checkpkg, parsed, updates, last_update,
                   ordVars, crashVars, mailVars, procVars>>

\* _get_packages_to_upgrade: the loop ends and pkgs_list is returned
FilterDone ==
    /\ pc = "filter"
    /\ Len(decisions) = Len(parsed)
    /\ pc' = "selected"
    /\ UNCHANGED <<runVars, history_file, history, settings, today, selVars,
                   updates, last_update,
                   ordVars, crashVars, mailVars, procVars>>

NextSelect ==
    \/ ParseReport
    \/ FilterPkg
    \/ FilterDone

SpecSelect == InitSelect /\ [][NextSelect]_vars

-----------------------------------------------------------------------------
(* Updater._order_pkgs_to_upgrade, called on a list of packages *)

MaxDeps == 3

\* The packages the ordering may be given
OrderUniverse == PkgUniverse \cup { <<zlib, <<"1.3">>, alice>> }

\* The lines pn-depends.dot may hold: a dependency of a package on another
\* package or on glibc, a dependency of gcc on itself, a line without an arrow
DepLines ==
    ({ <<pn, pn_dep>> : pn \in {gcc, gccrt, zlib},
                        pn_dep \in {gcc, gccrt, zlib, glibc} }
        \ { <<gccrt, gccrt>>, <<zlib, zlib>> })
       \cup { <<>> }

\* The files of at most n lines
RECURSIVE Files(_)
Files(n) ==
    IF n = 0 THEN { <<>> }
    ELSE LET shorter == Files(n - 1)
         IN  shorter \cup
             { Append(f, line) : f \in { g \in shorter : Len(g) = n - 1 },
                                 line \in DepLines }

\* The state when _order_pkgs_to_upgrade is called
InitOrder ==
    /\ pc = "order"
    /\ pkgs_to_upgrade \in DistinctSeqs(OrderUniverse, Cardinality(OrderUniverse))
    /\ dependency_file \in Files(MaxDeps)
    /\ ordered = NotOrdered
    /\ attempted_pkgs = 0
    /\ step = 0
    /\ pkgs_ctx = <<>>
    /\ succeeded_pkgs_ctx = <<>>
    /\ failed_pkgs_ctx = <<>>
    /\ raised = <<>>
    /\ vcs = <<>>
    /\ calls = <<>>
    /\ statistics = <<>>
    /\ recorded = 0
    /\ email_summary = <<>>
    /\ history_file = <<>>
    /\ history = <<>>
    /\ settings = <<>>
    /\ today = <<2016, 3, 15>>
    /\ updates = 0
    /\ last_update = NoUpdate
    /\ SelectionIdle
    /\ CrashIdle
    /\ MailIdle
    /\ ProcIdle

\* _order_pkgs_to_upgrade, with the answer of bb.dependency_graph
OrderPkgs(answer) ==
    /\ pc = "order"
    /\ ordered' = OrderPkgsToUpgrade(pkgs_to_upgrade, dependency_file, answer)
    /\ pc' = "ordered"
    /\ UNCHANGED <<runVars, history_file, history, settings, today, updates,
                   last_update, selVars, dependency_file, crashVars,
                   mailVars, procVars>>

NextOrder == \E answer \in GraphAnswers : OrderPkgs(answer)

SpecOrder == InitOrder /\ [][NextOrder]_vars

-----------------------------------------------------------------------------
(* Properties of the selection *)

\* The value of a string of decimal digits
DigitOf(c) ==
    CASE c = "0" -> 0 [] c = "1" -> 1 [] c = "2" -> 2 [] c = "3" -> 3
      [] c = "4" -> 4 [] c = "5" -> 5 [] c = "6" -> 6 [] c = "7" -> 7
      [] c = "8" -> 8 [] c = "9" -> 9

RECURSIVE ParseInt(_)
ParseInt(s) ==
    IF s = <<>> THEN 0
    ELSE 10 * ParseInt(SubSeq(s, 1, Len(s) - 1)) + DigitOf(s[Len(s)])

\* The cooldown window of the configuration: 7 when none is configured
ConfiguredCooldown ==
    IF "cooldown" \in DOMAIN settings THEN ParseInt(settings["cooldown"]) ELSE 7

\* The ledger holds a record of the candidate for the proposed version
SameTarget(d) ==
    \E i \in 1..Len(history_file) :
        LET f == Split(history_file[i], ",")
        IN  f[1] = d.pn /\ f[2] = d.next_ver

\* The field of the candidate's record
RecordField(d, k) ==
    LET i == CHOOSE j \in 1..Len(history_file) :
                 Split(history_file[j], ",")[1] = d.pn
    IN  Split(history_file[i], ",")[k]

\* The recorded status is a fetch error or an unclassified error
Transient(d) ==
    RecordField(d, 5) \in { <<"Failed(do_fetch)">>, <<"Failed(other errors)">> }

\* The days since the recorded attempt
Elapsed(d) == ToOrdinal(today) - ToOrdinal(StrpTime(RecordField(d, 4)))

\* The candidate is among the selected packages
Selected(d) == \E j \in 1..Len(pkgs_list) : pkgs_list[j][1] = d.pn

\* No rule before the history rule excluded the candidate
ReachedHistoryRule(d) ==
    d.reason \notin {"no maintainer", "blacklist", "not in whitelist"}

\* C6: a candidate with a record for the proposed version whose status is
\* Succeeded or a failure that is not retried is excluded, however long ago
\* the attempt was.
C6_SettledTargetIsExcluded ==
    \A i \in 1..Len(decisions) :
        LET d == decisions[i]
        IN  (SameTarget(d) /\ ~Transient(d)) => (~d.ok /\ ~Selected(d))

\* C6, witness: a compile failure for the proposed version, 31 days ago,
\* reached the history rule and was excluded.
C6_Witness ==
    \E i \in 1..Len(decisions) :
        LET d == decisions[i]
        IN  /\ SameTarget(d)
            /\ RecordField(d, 5) = <<"Failed(do_compile)">>
            /\ Elapsed(d) = 31
            /\ d.reason = "in history"

C9_NoCrossOrNativeSelected ==
    \A j \in 1..Len(pkgs_list) :
        /\ ~Contains(pkgs_list[j][1], <<"c", "r", "o", "s", "s">>)
        /\ ~Contains(pkgs_list[j][1], <<"n", "a", "t", "i", "v", "e">>)

\* The entries of the configured whitelist
WhitelistEntries ==
    IF "maintainers_whitelist" \in DOMAIN settings
    THEN Range(SplitWs(settings["maintainers_whitelist"]))
    ELSE {}

\* C10: the whitelist rule excludes a candidate exactly when the whitelist
\* has an entry and no entry is a substring of the maintainer; a configured
\* whitelist without entries excludes nobody.
C10_WhitelistRule ==
    \A i \in 1..Len(decisions) :
        LET d == decisions[i]
        IN  d.reason \notin {"no maintainer", "blacklist"} =>
                (d.reason = "not in whitelist" <=>
                    /\ WhitelistEntries # {}
                    /\ \A m \in WhitelistEntries : ~Contains(d.maintainer, m))

-----------------------------------------------------------------------------
(* Properties of the upgrade loop *)

Benign == {"UpgradeNotNeededError", "UnsupportedProtocolError"}

\* The step sequence of pn has ended and its commit has not started
AtCommitOf(pn) == pc = "commit" /\ CurPn = pn

\* The commit finalization of pn is over
Committed(pn) == vcs[pn].answer # Absent

\* The position of pn in pkgs_to_upgrade
IndexOf(pn) == CHOOSE i \in 1..Len(pkgs_to_upgrade) : pkgs_to_upgrade[i][1] = pn

\* The position in calls of the step call of pn that raised
RaisedAt(pn) == CHOOSE p \in 1..Len(calls) : calls[p] = <<pn, raised[pn].at>>

\* C1: a recipe whose step sequence stopped with NotNeeded or
\* UnsupportedSource has ctx.error unset when the step sequence ends, runs no
\* further step, is not in the failed set and is recorded as no failure in
\* the statistics and in the ledger.
C1_BenignIsNoFailure ==
    \A pn \in DOMAIN raised :
        raised[pn].exc \in Benign =>
            /\ \A i \in 1..Len(calls) :
                   calls[i][1] = pn => calls[i][2] <= raised[pn].at
            /\ AtCommitOf(pn) =>
                   /\ pkgs_ctx[pn].error = None
                   /\ pn \notin Range(failed_pkgs_ctx)
            /\ (Committed(pn) /\ ~vcs[pn].raised) =>
                   /\ pn \notin Range(failed_pkgs_ctx)
                   /\ \A i \in 1..Len(statistics) :
                          statistics[i].pn = pn => statistics[i].error = None
                   /\ \A i \in 1..Len(history_file) :
                          StartsWith(history_file[i], pn \o <<",">>) =>
                              Split(history_file[i], ",")[5] = Succeeded

\* C2: a commit that git rejects with "nothing to commit" does not raise,
\* leaves patch_file None, does not set ctx.error and does not move the
\* recipe to the failed set.
C2_NothingToCommitIsNoFailure ==
    \A pn \in DOMAIN vcs :
        vcs[pn].answer = "nothing to commit" =>
            /\ ~vcs[pn].raised
            /\ pkgs_ctx[pn].patch_file \in {None, ""}
            /\ raised[pn].exc = None =>
                   /\ pkgs_ctx[pn].error = None
                   /\ pn \in Range(succeeded_pkgs_ctx)
                   /\ pn \notin Range(failed_pkgs_ctx)

AllTerminal ==
    \A i \in 1..Len(pkgs_to_upgrade) :
        LET pn == pkgs_to_upgrade[i][1]
        IN  /\ <<pn, 1>> \in Range(calls)
            /\ Committed(pn)
            /\ (pn \in Range(succeeded_pkgs_ctx)) #
                   (pn \in Range(failed_pkgs_ctx))

-----------------------------------------------------------------------------
(* Properties of the dependency order *)

\* The names of a list of packages, in its order
PnList(pkgs) == [i \in 1..Len(pkgs) |-> pkgs[i][1]]

\* The dependencies of the file between two different names of the list
InSetEdges ==
    { line \in Range(dependency_file) :
        /\ Matches(line)
        /\ line[1] # line[2]
        /\ line[1] \in Names(pkgs_to_upgrade)
        /\ line[2] \in Names(pkgs_to_upgrade) }

\* The names of the list that no dependency of InSetEdges mentions
Unconstrained ==
    { pn \in Names(pkgs_to_upgrade) :
        \A e \in InSetEdges : pn # e[1] /\ pn # e[2] }

Position(seq, x) == CHOOSE i \in 1..Len(seq) : seq[i] = x

\* _order_pkgs_to_upgrade was called and the dependencies could be extracted
Extracted == ordered.called /\ ordered.exc # "Error"

\* C12: the order never has a recipe before one of its dependencies among the
\* given names; for three names A, B, C with B depending on A and C on B,
\* given in any order, the order is A, B, C.
C12_DependenciesComeFirst ==
    Extracted =>
        LET out == PnList(ordered.pkgs)
        IN  /\ \A e \in InSetEdges :
                   e[1] \in Range(out) =>
                       /\ e[2] \in Range(out)
                       /\ Position(out, e[2]) < Position(out, e[1])
            /\ ( /\ Names(pkgs_to_upgrade) = {gcc, gccrt, zlib}
                 /\ InSetEdges = { <<gccrt, gcc>>, <<zlib, gccrt>> } )
                   => ordered.exc = None /\ out = <<gcc, gccrt, zlib>>

\* C13: an order that is returned holds every given name exactly once; the
\* names without a dependency are in it, in the order they were given, after
\* the names that have one.
C13_EveryNameExactlyOnce ==
    (Extracted /\ ordered.exc = None) =>
        LET out == PnList(ordered.pkgs)
            inp == PnList(pkgs_to_upgrade)
        IN  /\ Len(out) = Len(inp)
            /\ Range(out) = Range(inp)
            /\ \A p, q \in Unconstrained :
                   Position(inp, p) < Position(inp, q)
                       => Position(out, p) < Position(out, q)
            /\ \A p \in Unconstrained, q \in Range(inp) \ Unconstrained :
                   Position(out, q) < Position(out, p)

\* C14: when two of the given names depend on each other, the ordering fails
\* with the circular dependency error, the error names two names that depend
\* on each other, and no order is returned.
C14_CycleIsReported ==
    (Extracted /\ \E e \in InSetEdges : <<e[2], e[1]>> \in InSetEdges) =>
        /\ ordered.exc = "RuntimeError"
        /\ \E e \in InSetEdges :
               /\ <<e[2], e[1]>> \in InSetEdges
               /\ Range(ordered.args) = {e[1], e[2]}
        /\ ordered.pkgs = <<>>

-----------------------------------------------------------------------------
(* Properties of the run that need the dependencies and the recorded outcomes *)

\* The position in calls of a call that was made
CallIndex(c) == CHOOSE i \in 1..Len(calls) : calls[i] = c

\* C11: the first step of a recipe is called only after the commit
\* finalization of every selected recipe it depends on has been called.
C11_DependenciesAreProcessedFirst ==
    \A e \in InSetEdges :
        <<e[1], 1>> \in Range(calls) =>
            /\ <<e[2], 0>> \in Range(calls)
            /\ CallIndex(<<e[2], 0>>) < CallIndex(<<e[1], 1>>)

\* C15: when two of the selected recipes depend on each other the run stops
\* before the first step of any recipe: no recipe is attempted and no step
\* or commit is called.
C15_CircularDependencyStopsRun ==
    (\E e \in InSetEdges : <<e[2], e[1]>> \in InSetEdges) =>
        /\ attempted_pkgs = 0
        /\ calls = <<>>

\* C18: a recipe whose commit git accepted and whose patch is empty has
\* ctx.error set and is in the failed set and not in the succeeded set, also
\* when every step of the recipe returned.
C18_EmptyPatchFails ==
    \A pn \in DOMAIN vcs :
        vcs[pn].answer = "empty patch" =>
            /\ pkgs_ctx[pn].error \notin {None, Absent}
            /\ pn \in Range(failed_pkgs_ctx)
            /\ pn \notin Range(succeeded_pkgs_ctx)

\* C18, witness: every step of a recipe returned, git accepted the commit and
\* printed no patch.
C18_Witness ==
    \E pn \in DOMAIN vcs :
        /\ vcs[pn].answer = "empty patch"
        /\ raised[pn].exc = None
        /\ \A k \in 1..NumSteps : <<pn, k>> \in Range(calls)

\* The outcome of pn has been recorded by the final loop
Recorded(pn) == pc \in {"record", "done"} /\ IndexOf(pn) <= recorded

\* C19: when a step of recipe Y raised an execution failure E, then whatever
\* the commit finalization did, the statistics hold one update for Y, with an
\* error; once Y is recorded the ledger holds one record of Y, with today's
\* date and the status text of E; and the subject written for Y has the
\* failure marker.
C19_FailureIsRecorded ==
    \A pn \in DOMAIN raised :
        (raised[pn].exc \notin Benign \cup {None} /\ Recorded(pn)) =>
            /\ Cardinality({ i \in 1..Len(statistics) :
                               statistics[i].pn = pn }) = 1
            /\ \A i \in 1..Len(statistics) :
                   statistics[i].pn = pn => statistics[i].error # None
            /\ recorded = IndexOf(pn) =>
                   /\ RecordsOf(history_file, pn) = 1
                   /\ ReadHistory(history_file)[pn] =
                          <<pkgs_ctx[pn].NPV, pkgs_ctx[pn].MAINTAINER,
                            IsoFormat(today),
                            StrOfError(StepError(raised[pn].exc))>>
            /\ \E i \in 1..Len(email_summary) :
                   /\ email_summary[i].pn = pn
                   /\ Contains(email_summary[i].subject, <<" FAILED">>)

\* The status text of the error a context ends with
FinalStatus(pn) ==
    IF pkgs_ctx[pn].error = None THEN Succeeded
    ELSE StrOfError(pkgs_ctx[pn].error)

-----------------------------------------------------------------------------
(* Properties of the ledger file *)

\* C16: after any number of _update_history calls on a ledger that had at
\* most one record per recipe name, no two lines of the ledger file are
\* records of the same recipe name.
C16_AtMostOneRecordPerName ==
    \A i, j \in 1..Len(history_file) :
        LineName(history_file[i]) = LineName(history_file[j]) => i = j

\* C16, witness: the second update has replaced the record of a name in a
\* ledger that holds another record too.
C16_Witness ==
    /\ last_update.called
    /\ updates >= 2
    /\ RecordsOf(last_update.before, last_update.pn) = 1
    /\ RecordsOf(history_file, last_update.pn) = 1
    /\ Len(history_file) >= 2

\* The ledger an update is to leave: the old records except those of the
\* updated name, and the new record
NewLedger(u) ==
    Append(SelectSeq(u.before, LAMBDA line : LineName(line) # u.pn),
           HistoryLine(u.pn, u.new_ver, u.maintainer, IsoFormat(today),
                       u.upgrade_status))

\* C17: when the process dies during an update, the ledger file is the whole
\* old ledger or the whole new one: the old records except those of the
\* updated name, and the new record.
C17_CrashLeavesOldOrNew ==
    pc = "crashed" =>
        \/ history_file = interrupted.before
        \/ history_file = NewLedger(interrupted)

-----------------------------------------------------------------------------
(* The dependency order: no circular dependency is reported without one *)

\* The pairs of names joined by a chain of at most n dependencies of E
RECURSIVE Chains(_, _)
Chains(E, n) ==
    IF n <= 1 THEN E
    ELSE LET shorter == Chains(E, n - 1)
         IN  shorter \cup
             { <<c[1][1], c[2][2]>> :
                 c \in { x \in shorter \X E : x[1][2] = x[2][1] } }

\* No given name depends on itself through the dependencies between the
\* given names
Acyclic ==
    \A c \in Chains(InSetEdges, Len(pkgs_to_upgrade)) : c[1] # c[2]

\* C27: when the dependencies between the given names have no cycle (a
\* dependency of a name on itself does not count), the ordering returns a
\* list and raises no circular dependency error.
C27_NoCycleNoError ==
    (Extracted /\ Acyclic) =>
        /\ ordered.exc # "RuntimeError"
        /\ ordered.exc = None

-----------------------------------------------------------------------------
(* Properties of the selection: its order and the version of the record *)

\* The candidate a row of the report stands for
Candidate(row) == <<row.pn, row.next_ver, row.maintainer>>

\* The row passes rule 1: an update is available and no reason to skip it
PassesRuleOne(row) == row.status = "UPDATE" /\ row.no_upgrade_reason = <<>>

\* list holds candidates of rows that pass rule 1, each row at most once, in
\* the order of the report
SubsequenceOfReport(list) ==
    \E f \in [1..Len(list) -> 1..Len(checkpkg)] :
        /\ \A j \in 1..Len(list) :
               /\ list[j] = Candidate(checkpkg[f[j]])
               /\ PassesRuleOne(checkpkg[f[j]])
        /\ \A j, k \in 1..Len(list) : j < k => f[j] < f[k]

\* C26: the selected candidates are candidates of the report in the order of
\* the report, a row gives at most one of them, none is of a row that fails
\* rule 1, and every candidate that passed the rules is among them once.
C26_OutputIsSubsequence ==
    /\ SubsequenceOfReport(parsed)
    /\ SubsequenceOfReport(pkgs_list)
    /\ \A i \in 1..Len(decisions) :
           decisions[i].ok =>
               Cardinality({ j \in 1..Len(pkgs_list) :
                               pkgs_list[j][1] = decisions[i].pn }) = 1

\* C26, witness: the selection is over; the first row of the report failed
\* rule 1 and the candidate of the second row was selected.
C26_Witness ==
    /\ pc = "selected"
    /\ Len(checkpkg) = 2
    /\ ~PassesRuleOne(checkpkg[1])
    /\ pkgs_list = << Candidate(checkpkg[2]) >>

\* The ledger holds a record of the candidate
HasRecord(d) ==
    \E i \in 1..Len(history_file) : Split(history_file[i], ",")[1] = d.pn

\* C29: a candidate whose record is of another version than the proposed one
\* is not decided by the history rule, whatever the recorded status and
\* date; when it reaches that rule it is excluded if and only if its name is
\* cross or native.
C29_OtherVersionSkipsHistoryRule ==
    \A i \in 1..Len(decisions) :
        LET d == decisions[i]
        IN  (HasRecord(d) /\ RecordField(d, 2) # d.next_ver) =>
                /\ d.reason \notin {"in history", "retry"}
                /\ ReachedHistoryRule(d) =>
                       /\ d.ok = ~(Contains(d.pn, cross) \/ Contains(d.pn, native))
                       /\ ~d.ok => d.reason = "cross or native"
                /\ d.ok = Selected(d)

\* C29, witness: gcc-cross has a record of a success with another version, a
\* week ago, and is excluded as cross or native.
C29_Witness ==
    \E i \in 1..Len(decisions) :
        LET d == decisions[i]
        IN  /\ d.pn = gcccross
            /\ HasRecord(d)
            /\ RecordField(d, 2) # d.next_ver
            /\ RecordField(d, 5) = Succeeded
            /\ Elapsed(d) = 7
            /\ d.reason = "cross or native"

-----------------------------------------------------------------------------
(* Properties of the loop over the recipes: its sets and its calls *)

\* C28: when the loop over the recipes has ended, every recipe of the list is
\* in exactly one of the succeeded and the failed set, it is in the succeeded
\* set if and only if its error is None, and at no time is a recipe whose
\* step sequence raised in the succeeded set.
C28_SetsPartitionByError ==
    /\ pc \in {"record", "done"} =>
           \A pn \in Names(pkgs_to_upgrade) :
               /\ (pn \in Range(succeeded_pkgs_ctx)) #
                      (pn \in Range(failed_pkgs_ctx))
               /\ (pn \in Range(succeeded_pkgs_ctx)) =
                      (pkgs_ctx[pn].error = None)
    /\ \A pn \in DOMAIN raised :
           raised[pn].at > 0 => pn \notin Range(succeeded_pkgs_ctx)

\* C28, witness: the loop has ended; the first recipe raised in its steps and
\* its commit gave a patch, the second recipe ended its steps and its commit
\* was rejected.
C28_Witness ==
    /\ pc = "record"
    /\ Len(pkgs_to_upgrade) = 2
    /\ raised[pkgs_to_upgrade[1][1]].exc = "FetchError"
    /\ vcs[pkgs_to_upgrade[1][1]].answer = "patch"
    /\ raised[pkgs_to_upgrade[2][1]].exc = None
    /\ vcs[pkgs_to_upgrade[2][1]].raised

\* The positions in calls of the calls made for pn
CallsOf(pn) == { i \in 1..Len(calls) : calls[i][1] = pn }

\* C25: the calls made for a recipe are consecutive and its steps are called
\* in their order, starting with the first step, which is called once; its
\* commit is called at most once, as the last of its calls and before any
\* call for another recipe; when the loop has ended every recipe has had its
\* commit, whatever its step sequence did.
C25_SequentialWithOneCommit ==
    /\ \A pn \in Names(pkgs_to_upgrade) :
           /\ \A i, j \in CallsOf(pn) : \A k \in i..j : k \in CallsOf(pn)
           /\ Cardinality({ i \in CallsOf(pn) : calls[i][2] = 1 }) <= 1
           /\ Cardinality({ i \in CallsOf(pn) : calls[i][2] = 0 }) <= 1
           /\ \A i, j \in CallsOf(pn) : calls[i][2] = 0 => j <= i
    /\ calls # <<>> => calls[1][2] = 1
    /\ \A i \in 1..(Len(calls) - 1) :
           IF calls[i][1] = calls[i + 1][1]
           THEN calls[i + 1][2] \in {0, calls[i][2] + 1}
           ELSE calls[i][2] = 0 /\ calls[i + 1][2] = 1
    /\ pc \in {"record", "done"} =>
           \A pn \in Names(pkgs_to_upgrade) :
               Cardinality({ i \in CallsOf(pn) : calls[i][2] = 0 }) = 1

\* C25, witness: the loop has ended; the first of two recipes stopped with a benign exception, the second with a
\* failure, and each had its commit.
C25_Witness ==
    /\ pc = "record"
    /\ Len(pkgs_to_upgrade) = 2
    /\ raised[pkgs_to_upgrade[1][1]].exc = "UpgradeNotNeededError"
    /\ raised[pkgs_to_upgrade[2][1]].exc = "Exception"
    /\ <<pkgs_to_upgrade[1][1], 0>> \in Range(calls)
    /\ <<pkgs_to_upgrade[2][1], 0>> \in Range(calls)


-----------------------------------------------------------------------------
(* The reading of a ledger that was edited by hand *)

Blanks == {" ", "\t"}

\* str.strip(): the string without its leading and trailing blanks
RECURSIVE Strip(_)
Strip(s) ==
    IF s # <<>> /\ s[1] \in Blanks THEN Strip(Tail(s))
    ELSE IF s # <<>> /\ s[Len(s)] \in Blanks
         THEN Strip(SubSeq(s, 1, Len(s) - 1))
    ELSE s

\* UniverseUpdater.__init__: the loop over the lines of the ledger, from the
\* dictionary h on; line.split(',')[k] raises IndexError on a line of fewer
\* than five fields, before the assignment to self.history
RECURSIVE ReadHistoryFile(_, _)
ReadHistoryFile(file, h) ==
    IF file = <<>> THEN [exc |-> None, history |-> h]
    ELSE LET f == Split(Strip(Head(file)), ",")
         IN  IF Len(f) < 5 THEN [exc |-> "IndexError", history |-> h]
             ELSE ReadHistoryFile(Tail(file),
                      [k \in DOMAIN h \cup {f[1]} |->
                          IF k = f[1] THEN <<f[2], f[3], f[4], f[5]>>
                          ELSE h[k]])

\* Lines of fewer than five fields: an empty line, a blank line, a cut line
MalformedLines == { <<>>, <<" ">>, gcc \o <<",">> \o <<"2.0">> }

\* The ledgers of at most n lines, written by the program or by hand
EditedLedgers(n) ==
    UNION { [1..k -> HistLines \cup MalformedLines] : k \in 0..n }

\* The state when UniverseUpdater.__init__ is about to read the ledger
InitLoad ==
    /\ pc = "load"
    /\ history_file \in EditedLedgers(MaxLines)
    /\ history = <<>>
    /\ settings = <<>>
    /\ today = <<2016, 3, 15>>
    /\ updates = 0
    /\ last_update = NoUpdate
    /\ RunIdle
    /\ SelectionIdle
    /\ OrderIdle
    /\ CrashIdle
    /\ MailIdle
    /\ ProcIdle

\* UniverseUpdater.__init__: the ledger is read, or the constructor raises
ReadLedger ==
    /\ pc = "load"
    /\ LET r == ReadHistoryFile(history_file, <<>>)
       IN  /\ history' = r.history
           /\ pc' = IF r.exc = None THEN "loaded" ELSE r.exc
    /\ UNCHANGED <<runVars, history_file, settings, today, selVars, updates,
                   last_update, ordVars, crashVars, mailVars, procVars>>

NextLoad == ReadLedger

SpecLoad == InitLoad /\ [][NextLoad]_vars

\* Whether a line of the ledger has the five fields of a record
WellFormed(line) == Len(Split(Strip(line), ",")) >= 5

\* C23: once the ledger has been read the load has ended without an error and
\* the history holds the records of the well-formed lines, the malformed
\* lines being skipped.
C23_MalformedLineIsSkipped ==
    pc \in {"loaded", "IndexError"} =>
        /\ pc = "loaded"
        /\ history = ReadHistory(SelectSeq(history_file, WellFormed))


-----------------------------------------------------------------------------
(* Properties of the messages of a run *)

\* The last part of a subject
Ending(subject) == subject[Len(subject)]

\* The recipes the final loop has handled
Finalized == { CtxKeys[i] : i \in 1..recorded }

C22_StatusMailAtMostOnce ==
    /\ Len(status_mails) <= 1
    /\ status_mails # <<>> =>
           /\ pc = "done"
           /\ attempted_pkgs > 0
           /\ opts.send_email

\* C22, witness: the status message of a run of two recipes has been sent.
C22_Witness ==
    /\ status_mails # <<>>
    /\ attempted_pkgs = 2


-----------------------------------------------------------------------------
(* The interrupt of a run *)

\* The orchestrator and the greatest number of processes of the model
Orchestrator == 1

MaxProcs == 4

Pids == 1..MaxProcs

\* A process that was not started yet
Unborn == [state |-> "unborn", pgid |-> "none", parent |-> 0]

\* The process group of a child: the group of the process that started it
ChildPgid(parent_pgid) == parent_pgid

\* Mutant: the handler signals the orchestrator alone
KillTargets_OnlySelf(ps, pid) == {pid}

\* close_child_processes: the processes os.killpg(os.getpgrp(), SIGKILL)
\* signals when process pid calls it
KillTargets(ps, pid) ==
    { p \in DOMAIN ps : ps[p].state = "running" /\ ps[p].pgid = ps[pid].pgid }

\* The state after main has registered close_child_processes for SIGINT: the
\* orchestrator runs in the group of the shell that started it or in its own
InitInterrupt ==
    /\ pc = "main"
    /\ \E g \in {"shell", "own"} :
           procs = [p \in Pids |->
                      IF p = Orchestrator
                      THEN [state |-> "running", pgid |-> g, parent |-> 0]
                      ELSE Unborn]
    /\ sigint = "none"
    /\ history_file = <<>>
    /\ history = <<>>
    /\ settings = <<>>
    /\ today = <<2016, 3, 15>>
    /\ updates = 0
    /\ last_update = NoUpdate
    /\ RunIdle
    /\ SelectionIdle
    /\ OrderIdle
    /\ CrashIdle
    /\ updater = "UniverseUpdater"
    /\ opts = UniverseOpts
    /\ sent = <<>>
    /\ status_mails = <<>>

\* A running process starts a build or version-control process
Spawn(parent, child) ==
    /\ procs[parent].state = "running"
    /\ procs[child].state = "unborn"
    /\ procs' = [procs EXCEPT ![child] =
                    [state |-> "running",
                     pgid |-> ChildPgid(procs[parent].pgid),
                     parent |-> parent]]
    /\ UNCHANGED <<pc, runVars, history_file, history, settings, today,
                   selVars, updates, last_update, ordVars, crashVars,
                   mailVars, sigint>>

\* A build or version-control process ends by itself
ChildExits(p) ==
    /\ p # Orchestrator
    /\ procs[p].state = "running"
    /\ procs' = [procs EXCEPT ![p].state = "exited"]
    /\ UNCHANGED <<pc, runVars, history_file, history, settings, today,
                   selVars, updates, last_update, ordVars, crashVars,
                   mailVars, sigint>>

\* SIGINT is sent to the orchestrator
Interrupt ==
    /\ sigint = "none"
    /\ procs[Orchestrator].state = "running"
    /\ sigint' = "pending"
    /\ UNCHANGED <<pc, runVars, history_file, history, settings, today,
                   selVars, updates, last_update, ordVars, crashVars,
                   mailVars, procs>>

\* close_child_processes runs in the orchestrator
CloseChildProcesses ==
    /\ sigint = "pending"
    /\ procs[Orchestrator].state = "running"
    /\ procs' = [p \in Pids |->
                    IF p \in KillTargets(procs, Orchestrator)
                    THEN [procs[p] EXCEPT !.state = "killed"]
                    ELSE procs[p]]
    /\ sigint' = "handled"
    /\ UNCHANGED <<pc, runVars, history_file, history, settings, today,
                   selVars, updates, last_update, ordVars, crashVars,
                   mailVars>>

NextInterrupt ==
    \/ \E parent, child \in Pids : Spawn(parent, child)
    \/ \E p \in Pids : ChildExits(p)
    \/ Interrupt
    \/ CloseChildProcesses

SpecInterrupt == InitInterrupt /\ [][NextInterrupt]_vars

\* The processes the orchestrator started, directly or through others
RECURSIVE Descendants(_, _)
Descendants(p, n) ==
    IF n = 0 THEN {}
    ELSE LET children == { c \in Pids : procs[c].state # "unborn"
                                        /\ procs[c].parent = p }
         IN  children \cup UNION { Descendants(c, n - 1) : c \in children }

\* C24: once the handler of the interrupt has run, neither the orchestrator
\* nor any process it started, directly or through others, is running.
C24_InterruptEndsAllProcesses ==
    sigint = "handled" =>
        /\ procs[Orchestrator].state # "running"
        /\ \A p \in Descendants(Orchestrator, MaxProcs) :
               procs[p].state # "running"

\* C24, witness: the handler has run and has ended a process the orchestrator
\* started and a process which that process started.
C24_Witness ==
    /\ sigint = "handled"
    /\ \E c, g \in Pids :
           /\ procs[c].parent = Orchestrator
           /\ procs[g].parent = c
           /\ procs[c].state = "killed"
           /\ procs[g].state = "killed"

====
